---- MODULE Spec2Model ----
(***************************************************************************)
(* Model of tinygrad/renderer/__init__.py: the cost estimator flops_mem,   *)
(* Estimates.__add__, and ProgramSpec (__post_init__, dataclasses.replace, *)
(* launch_dims).                                                           *)
(*                                                                         *)
(* UOps are interned in tinygrad (structurally equal UOps are one object), *)
(* so a UOp is modelled by a name, and Node(name) gives its op, dtype, src *)
(* and arg.  The Python arg is dynamically typed; it is held in a record   *)
(* with one field per use the file makes of it:                            *)
(*   tag   : SPECIAL arg[0], a string, as a sequence of characters         *)
(*   n     : SPECIAL arg[1]'s integer part, DEFINE_GLOBAL arg, CONST arg,  *)
(*           WMMA arg[5]                                                   *)
(*   v     : SPECIAL arg[1]'s symbolic part: "" for a plain int, else the  *)
(*           name of the DEFINE_VAR it multiplies (arg[1] = n * v)         *)
(*   shape : WMMA arg[1] (the dims), DEFINE_VAR arg (name, min, max)       *)
(***************************************************************************)
EXTENDS Integers, Sequences, FiniteSets, TLC

\* ---------------------------------------------------------------- bounds
MaxLoopLen == 4
MaxLen == 3
MaxRegionA == 3
MaxRegionB == 2
MaxBufLen == 3
MaxGridLen == 3
MaxDims == 2
MaxLaunchLen == 2
MaxCalls == 3

\* ------------------------------------------------------------- the UOps
DType(itemsize, count) == [itemsize |-> itemsize, count |-> count]
dtInt == DType(4, 1)
dtBool == DType(1, 1)
dtFloat == DType(4, 1)
dtHalf == DType(2, 1)
dtFloat4 == DType(16, 4)
dtVoid == DType(0, 1)

Arg(tag, n, v, shape) == [tag |-> tag, n |-> n, v |-> v, shape |-> shape]
NoArg == Arg(<<>>, 0, "", <<>>)
UOp(op, dtype, src, arg) == [op |-> op, dtype |-> dtype, src |-> src, arg |-> arg]

Node(id) ==
  CASE id = "c0"   -> UOp("CONST", dtInt, <<>>, Arg(<<>>, 0, "", <<>>))
    [] id = "c2"   -> UOp("CONST", dtInt, <<>>, Arg(<<>>, 2, "", <<>>))
    [] id = "c5"   -> UOp("CONST", dtInt, <<>>, Arg(<<>>, 5, "", <<>>))
    [] id = "r2"   -> UOp("RANGE", dtInt, <<"c0", "c2">>, Arg(<<>>, 0, "", <<>>))
    [] id = "r3"   -> UOp("RANGE", dtInt, <<"c2", "c5">>, Arg(<<>>, 1, "", <<>>))
    [] id = "e2"   -> UOp("ENDRANGE", dtVoid, <<"r2">>, NoArg)
    [] id = "e3"   -> UOp("ENDRANGE", dtVoid, <<"r3">>, NoArg)
    [] id = "s5"   -> UOp("SPECIAL", dtInt, <<>>, Arg(<<"g","i","d","x","0">>, 5, "", <<>>))
    [] id = "idx"  -> UOp("ADD", dtInt, <<"r2", "c2">>, NoArg)
    [] id = "mac"  -> UOp("MULACC", dtFloat4, <<"c2", "c5", "c2">>, NoArg)
    [] id = "wmma" -> UOp("WMMA", dtFloat, <<"c2", "c5", "c2">>, Arg(<<>>, 8, "", <<2, 2, 3>>))
    [] id = "lt"   -> UOp("CMPLT", dtBool, <<"wmma", "idx">>, NoArg)
    [] id = "ld"   -> UOp("LOAD", dtFloat, <<"idx">>, NoArg)
    [] id = "ld2"  -> UOp("LOAD", dtHalf, <<"ld">>, NoArg)
    [] id = "st"   -> UOp("STORE", dtVoid, <<"idx", "mac">>, NoArg)
    [] id = "stg"  -> UOp("STORE", dtVoid, <<"c2", "ld", "lt">>, NoArg)
    [] id = "if"   -> UOp("IF", dtVoid, <<"lt">>, NoArg)
    [] id = "g0"   -> UOp("DEFINE_GLOBAL", dtFloat, <<>>, Arg(<<>>, 0, "", <<>>))
    [] id = "g1"   -> UOp("DEFINE_GLOBAL", dtFloat, <<>>, Arg(<<>>, 1, "", <<>>))
    [] id = "va"   -> UOp("DEFINE_VAR", dtInt, <<>>, Arg(<<"a">>, 0, "", <<1, 8>>))
    [] id = "vb"   -> UOp("DEFINE_VAR", dtInt, <<>>, Arg(<<"b">>, 0, "", <<1, 8>>))
    [] id = "vab"  -> UOp("DEFINE_VAR", dtInt, <<>>, Arg(<<"a", "b">>, 0, "", <<1, 4>>))
    [] id = "i0"   -> UOp("INDEX", dtFloat, <<"g0", "c2">>, NoArg)
    [] id = "i1"   -> UOp("INDEX", dtFloat, <<"g1", "c2">>, NoArg)
    [] id = "ldi"  -> UOp("LOAD", dtInt, <<"i0">>, NoArg)
    [] id = "i10"  -> UOp("INDEX", dtFloat, <<"g1", "ldi">>, NoArg)
    [] id = "st0"  -> UOp("STORE", dtVoid, <<"i0", "c5">>, NoArg)
    [] id = "st1"  -> UOp("STORE", dtVoid, <<"i1", "c5">>, NoArg)
    [] id = "st10" -> UOp("STORE", dtVoid, <<"i10", "c5">>, NoArg)
    [] id = "sg0"  -> UOp("SPECIAL", dtInt, <<>>, Arg(<<"g","i","d","x","0">>, 3, "", <<>>))
    [] id = "sg1v" -> UOp("SPECIAL", dtInt, <<>>, Arg(<<"g","i","d","x","1">>, 2, "va", <<>>))
    [] id = "sg2"  -> UOp("SPECIAL", dtInt, <<>>, Arg(<<"g","i","d","x","2">>, 7, "", <<>>))
    [] id = "sl0"  -> UOp("SPECIAL", dtInt, <<>>, Arg(<<"l","i","d","x","0">>, 4, "", <<>>))
    [] id = "sl0v" -> UOp("SPECIAL", dtInt, <<>>, Arg(<<"l","i","d","x","0">>, 3, "vb", <<>>))
    [] id = "sl1"  -> UOp("SPECIAL", dtInt, <<>>, Arg(<<"l","i","d","x","1">>, 6, "", <<>>))
    [] id = "si0"  -> UOp("SPECIAL", dtInt, <<>>, Arg(<<"i","d","x","0">>, 9, "", <<>>))

\* The uops the estimator's input sequences are drawn from.
LoopOps == {"r2", "r3", "e2", "s5", "ld", "st", "mac"}
AllOps == {"c2", "r2", "r3", "e2", "e3", "s5", "idx", "mac", "wmma", "lt",
           "ld", "ld2", "st", "stg", "if"}

\* The regions whose estimates are added.
AddOps == {"r2", "e2", "s5", "ld", "idx"}
\* The uops the ProgramSpec's sequences are drawn from.
BufOps == {"g0", "g1", "va", "vb", "vab", "st0", "st1", "st10"}
GridOps == {"s5", "sg0", "sg2", "sl0", "sl1", "si0", "sg1v"}
LaunchOps == {"s5", "sg1v", "sl0", "sl0v", "si0"}

SeqsUpTo(S, n) == UNION {[1..k -> S] : k \in 0..n}

\* GroupOp.ALU (tinygrad.ops): the unary, binary and ternary ops.
GroupALU == {"ADD", "MUL", "CMPLT", "WHERE", "MULACC"}

\* UOp.toposort (tinygrad.ops): the node and everything reachable through src.
RECURSIVE toposort(_)
toposort(id) ==
  {id} \cup UNION {toposort(Node(id).src[k]) : k \in 1..Len(Node(id).src)}

Range(q) == {q[k] : k \in DOMAIN q}

\* The same closure in the order the toposort dict yields it: operands before
\* the node, each node once.
RECURSIVE TopoVisit(_, _)
RECURSIVE TopoVisitAll(_, _)
TopoVisit(acc, id) ==
  IF id \in Range(acc) THEN acc ELSE Append(TopoVisitAll(acc, Node(id).src), id)
TopoVisitAll(acc, srcs) ==
  IF srcs = <<>> THEN acc ELSE TopoVisitAll(TopoVisit(acc, Head(srcs)), Tail(srcs))
toposort_list(id) == TopoVisit(<<>>, id)

\* helpers.dedup: list(dict.fromkeys(x)), the first occurrence of each entry.
RECURSIVE dedup_from(_, _)
dedup_from(acc, q) ==
  IF q = <<>> THEN acc
  ELSE dedup_from(IF Head(q) \in Range(acc) THEN acc ELSE Append(acc, Head(q)), Tail(q))
dedup(q) == dedup_from(<<>>, q)

\* helpers.prod
RECURSIVE prod(_)
prod(s) == IF s = <<>> THEN 1 ELSE Head(s) * prod(Tail(s))

\* ----------------------------------------------------------- flops_mem
\* The locals of one call of flops_mem; status is "ok" or "error" (an
\* exception left the call).
Frame0 ==
  [flops |-> 0, mem |-> 0, mults |-> 1, mult_stack |-> <<>>,
   dont_count |-> {}, status |-> "ok"]

\* One iteration of the first loop (lines 44-49).
DontCountBody(dc, id) ==
  LET u == Node(id) IN
  IF u.op \in {"LOAD", "STORE"}
  THEN LET d1 == dc \cup toposort(u.src[1])
       IN IF Len(u.src) > 2 THEN d1 \cup toposort(u.src[3]) ELSE d1
  ELSE IF u.op = "IF" THEN dc \cup toposort(u.src[1])
  ELSE dc

RECURSIVE DontCountLoop(_, _)
DontCountLoop(dc, s) ==
  IF s = <<>> THEN dc ELSE DontCountLoop(DontCountBody(dc, Head(s)), Tail(s))

\* Lines 42-49: the exclusion set of a call.
DontCount(s, ii) == IF ii THEN DontCountLoop({}, s) ELSE {}

\* The trip count with the lower bound forgotten.
TripCountSrc1Only(u) == Node(u.src[2]).arg.n
\* (u.src[1] - u.src[0]).ssimplify() of a RANGE with constant bounds.
TripCount(u) == Node(u.src[2]).arg.n - Node(u.src[1]).arg.n

\* The branches of the second loop (lines 51-59).
OnRange(f, u) ==
  [f EXCEPT !.mult_stack = Append(f.mult_stack, f.mults),
            !.mults = f.mults * TripCount(u)]

\* ENDRANGE that leaves the multiplier alone when no RANGE is open.
OnEndRangeSilent(f, u) ==
  IF f.mult_stack = <<>> THEN f
  ELSE [f EXCEPT !.mults = f.mult_stack[Len(f.mult_stack)],
                 !.mult_stack = SubSeq(f.mult_stack, 1, Len(f.mult_stack) - 1)]
\* list.pop(-1) raises IndexError on an empty list.
OnEndRange(f, u) ==
  IF f.mult_stack = <<>> THEN [f EXCEPT !.status = "error"]
  ELSE [f EXCEPT !.mults = f.mult_stack[Len(f.mult_stack)],
                 !.mult_stack = SubSeq(f.mult_stack, 1, Len(f.mult_stack) - 1)]

OnSpecial(f, u) == [f EXCEPT !.mults = f.mults * u.arg.n]

OnLoad(f, u) == [f EXCEPT !.mem = f.mem + u.dtype.itemsize * f.mults]

OnStore(f, u) == [f EXCEPT !.mem = f.mem + Node(u.src[2]).dtype.itemsize * f.mults]

OnALU(f, u) ==
  [f EXCEPT !.flops = f.flops + (f.mults * (IF u.op = "MULACC" THEN 2 ELSE 1)) * u.dtype.count]

OnWMMA(f, u) ==
  [f EXCEPT !.flops = f.flops + ((2 * prod(u.arg.shape)) \div u.arg.n) * f.mults]

\* The chain of lines 51-59 without the dont_count tests.
BranchCountingExcluded(f, id) ==
  LET u == Node(id) IN
  IF u.op = "RANGE" THEN "RANGE"
  ELSE IF u.op = "ENDRANGE" THEN "ENDRANGE"
  ELSE IF u.op = "SPECIAL" THEN "SPECIAL"
  ELSE IF u.op = "LOAD" THEN "LOAD"
  ELSE IF u.op = "STORE" THEN "STORE"
  ELSE IF u.op \in GroupALU THEN "ALU"
  ELSE IF u.op = "WMMA" THEN "WMMA"
  ELSE "NONE"
\* Which branch of the if/elif chain of lines 51-59 a uop takes.
Branch(f, id) ==
  LET u == Node(id) IN
  IF u.op = "RANGE" THEN "RANGE"
  ELSE IF u.op = "ENDRANGE" THEN "ENDRANGE"
  ELSE IF u.op = "SPECIAL" THEN "SPECIAL"
  ELSE IF u.op = "LOAD" THEN "LOAD"
  ELSE IF u.op = "STORE" THEN "STORE"
  ELSE IF u.op \in GroupALU /\ id \notin f.dont_count THEN "ALU"
  ELSE IF u.op = "WMMA" /\ id \notin f.dont_count THEN "WMMA"
  ELSE "NONE"

\* One iteration of the second loop.
CountBody(f, id) ==
  LET u == Node(id)
      b == Branch(f, id) IN
  CASE b = "RANGE"    -> OnRange(f, u)
    [] b = "ENDRANGE" -> OnEndRange(f, u)
    [] b = "SPECIAL"  -> OnSpecial(f, u)
    [] b = "LOAD"     -> OnLoad(f, u)
    [] b = "STORE"    -> OnStore(f, u)
    [] b = "ALU"      -> OnALU(f, u)
    [] b = "WMMA"     -> OnWMMA(f, u)
    [] OTHER          -> f

RECURSIVE CountLoop(_, _)
CountLoop(f, s) ==
  IF s = <<>> \/ f.status = "error" THEN f
  ELSE CountLoop(CountBody(f, Head(s)), Tail(s))

\* flops_mem(uops, ignore_indexing) as a function: the final frame; the call
\* returns (flops, mem) when status is "ok" and raises otherwise.
flops_mem(s, ii) == CountLoop([Frame0 EXCEPT !.dont_count = DontCount(s, ii)], s)

\* ---------------------------------------------------------- Estimates
Estimates(ops, lds, mem) == [raised |-> FALSE, ops |-> ops, lds |-> lds, mem |-> mem]
\* The call that would have built the Estimates raised instead.
Raised == [raised |-> TRUE, ops |-> 0, lds |-> 0, mem |-> 0]

\* The sum with lds and mem crossed.
EstimatesAddMixed(x, o) ==
  IF x.raised \/ o.raised THEN Raised
  ELSE Estimates(x.ops + o.ops, x.lds + o.mem, x.mem + o.lds)
\* Estimates.__add__ (line 34).
EstimatesAdd(x, o) ==
  IF x.raised \/ o.raised THEN Raised
  ELSE Estimates(x.ops + o.ops, x.lds + o.lds, x.mem + o.mem)

\* Estimates(*flops_mem(uops, ignore_indexing), mem_estimate), as line 96 builds it.
EstimateOf(s, ii, mem_estimate) ==
  LET f == flops_mem(s, ii) IN
  IF f.status = "error" THEN Raised ELSE Estimates(f.flops, f.mem, mem_estimate)

\* --------------------------------------------------------- ProgramSpec
\* A sint: the int n when v = "", else n times the variable v.
Sint(n, v) == [n |-> n, v |-> v]

\* global_size and local_size hold a reference into heap, or 0 for None.
IsNone(ref) == ref = 0

\* The dataclass-generated __init__ (lines 64-76): the fields as passed, the
\* list fields from their default factories.
ProgramSpecInit(name, uops_is_none, s, mem_estimate, global_size, local_size) ==
  [name |-> name, src |-> "code", device |-> "DEV",
   uops_is_none |-> uops_is_none, uops |-> s, mem_estimate |-> mem_estimate,
   global_size |-> global_size, local_size |-> local_size,
   vars |-> <<>>, globals |-> <<>>, outs |-> <<>>, ran_post_init |-> FALSE]

\* int(c) of a one-character string.
int(c) ==
  CASE c = "0" -> 0 [] c = "1" -> 1 [] c = "2" -> 2 [] c = "3" -> 3 [] c = "4" -> 4
    [] c = "5" -> 5 [] c = "6" -> 6 [] c = "7" -> 7 [] c = "8" -> 8 [] c = "9" -> 9

\* Python's order on strings and on the (name, min, max) tuples of DEFINE_VAR.
ord(c) == CASE c = "a" -> 97 [] c = "b" -> 98
RECURSIVE StrLess(_, _)
StrLess(x, y) ==
  IF y = <<>> THEN FALSE
  ELSE IF x = <<>> THEN TRUE
  ELSE IF ord(Head(x)) # ord(Head(y)) THEN ord(Head(x)) < ord(Head(y))
  ELSE StrLess(Tail(x), Tail(y))
RECURSIVE IntsLess(_, _)
IntsLess(x, y) ==
  IF y = <<>> THEN FALSE
  ELSE IF x = <<>> THEN TRUE
  ELSE IF Head(x) # Head(y) THEN Head(x) < Head(y)
  ELSE IntsLess(Tail(x), Tail(y))
\* key=lambda v: v.arg (line 91)
VarKeyLess(x, y) ==
  \/ StrLess(Node(x).arg.tag, Node(y).arg.tag)
  \/ Node(x).arg.tag = Node(y).arg.tag /\ IntsLess(Node(x).arg.shape, Node(y).arg.shape)
IntLess(x, y) == x < y

\* sorted(q, key=...): a stable sort; key is "arg" for a list of DEFINE_VAR
\* uops sorted by v.arg, "self" for a list of ints.
KeyLess(key, x, y) == IF key = "arg" THEN VarKeyLess(x, y) ELSE IntLess(x, y)
RECURSIVE InsertSorted(_, _, _)
InsertSorted(q, x, key) ==
  IF q = <<>> THEN <<x>>
  ELSE IF KeyLess(key, x, Head(q)) THEN <<x>> \o q
  ELSE <<Head(q)>> \o InsertSorted(Tail(q), x, key)
RECURSIVE sorted_from(_, _, _)
sorted_from(acc, q, key) ==
  IF q = <<>> THEN acc ELSE sorted_from(InsertSorted(acc, Head(q), key), Tail(q), key)
sorted(q, key) == sorted_from(<<>>, q, key)

\* Line 84: the slots of the DEFINE_GLOBAL ops in the closure of src[0].
RECURSIVE GlobalArgs(_)
GlobalArgs(q) ==
  IF q = <<>> THEN <<>>
  ELSE (IF Node(Head(q)).op = "DEFINE_GLOBAL" THEN <<Node(Head(q)).arg.n>> ELSE <<>>)
       \o GlobalArgs(Tail(q))

\* Lines 85-90 with an out-of-range suffix dropped.
SpecialSizeUnchecked(st, u) ==
  LET tag == u.arg.tag
      p1 == IF tag[1] = "i" THEN [st.p EXCEPT !.local_size = 0] ELSE st.p
      special_size == IF tag[1] = "l" THEN p1.local_size ELSE p1.global_size
      k == int(tag[Len(tag)])
  IN IF IsNone(special_size) THEN [st EXCEPT !.p = p1, !.err = "AssertionError"]
     ELSE IF k >= Len(st.heap[special_size]) THEN [st EXCEPT !.p = p1]
     ELSE [st EXCEPT !.p = p1, !.heap[special_size][k + 1] = Sint(u.arg.n, u.arg.v)]
\* The same with an 'i' tag routed to local_size like an 'l' tag.
SpecialSizeImplicitAsLocal(st, u) ==
  LET tag == u.arg.tag
      special_size == IF tag[1] \in {"l", "i"} THEN st.p.local_size ELSE st.p.global_size
      k == int(tag[Len(tag)])
  IN IF IsNone(special_size) THEN [st EXCEPT !.err = "AssertionError"]
     ELSE IF k >= Len(st.heap[special_size]) THEN [st EXCEPT !.err = "IndexError"]
     ELSE [st EXCEPT !.heap[special_size][k + 1] = Sint(u.arg.n, u.arg.v)]
\* Lines 85-90, on st = [p, heap, err]: p the record under construction.
SpecialSize(st, u) ==
  LET tag == u.arg.tag
      p1 == IF tag[1] = "i" THEN [st.p EXCEPT !.local_size = 0] ELSE st.p
      special_size == IF tag[1] = "l" THEN p1.local_size ELSE p1.global_size
      k == int(tag[Len(tag)])
  IN IF IsNone(special_size) THEN [st EXCEPT !.p = p1, !.err = "AssertionError"]
     ELSE IF k >= Len(st.heap[special_size]) THEN [st EXCEPT !.p = p1, !.err = "IndexError"]
     ELSE [st EXCEPT !.p = p1, !.heap[special_size][k + 1] = Sint(u.arg.n, u.arg.v)]

\* One iteration of the loop of lines 81-90 (a uop has one op, so at most one
\* of the four ifs applies).
PassBody(st, id) ==
  LET u == Node(id) IN
  IF u.op = "DEFINE_VAR" THEN [st EXCEPT !.p.vars = Append(@, id)]
  ELSE IF u.op = "DEFINE_GLOBAL" THEN [st EXCEPT !.p.globals = Append(@, u.arg.n)]
  ELSE IF u.op = "STORE"
       THEN [st EXCEPT !.p.outs = @ \o GlobalArgs(toposort_list(u.src[1]))]
  ELSE IF u.op = "SPECIAL" THEN SpecialSize(st, u)
  ELSE st

RECURSIVE PassLoop(_, _)
PassLoop(st, s) ==
  IF s = <<>> \/ st.err # "" THEN st ELSE PassLoop(PassBody(st, Head(s)), Tail(s))

\* Line 92 without dedup.
FinishOutsNoDedup(outs) == sorted(outs, "self")
\* Line 92.
FinishOuts(outs) == sorted(dedup(outs), "self")

\* Line 79 without the _ran_post_init test.
PassRunsAlways(p) == ~p.uops_is_none
\* Line 79: whether the pass runs.
PassRuns(p) == ~p.ran_post_init /\ ~p.uops_is_none

\* ProgramSpec.__post_init__ (lines 78-93) on record p0 with the lists of h:
\* [p, heap, err], err the exception that left it or "".
post_init(p0, h) ==
  IF PassRuns(p0)
  THEN LET st == PassLoop([p |-> p0, heap |-> h, err |-> ""], p0.uops) IN
       IF st.err # "" THEN st
       ELSE [st EXCEPT !.p.vars = sorted(@, "arg"),
                       !.p.outs = FinishOuts(@),
                       !.p.ran_post_init = TRUE]
  ELSE [p |-> p0, heap |-> h, err |-> ""]

\* sym_infer (tinygrad.ops): an int is itself, a symbolic size is evaluated
\* under var_vals; Bound says whether every variable of sz has a value.
Bound(sz, var_vals) == sz.v = "" \/ sz.v \in DOMAIN var_vals
sym_infer(sz, var_vals) == IF sz.v = "" THEN sz.n ELSE sz.n * var_vals[sz.v]

\* [sym_infer(sz, var_vals) for sz in sizes]
Resolved(sizes, var_vals) ==
  [k \in 1..Len(sizes) |-> Sint(sym_infer(sizes[k], var_vals), "")]
AllBound(sizes, var_vals) == \A k \in 1..Len(sizes) : Bound(sizes[k], var_vals)

\* launch_dims resolving the stored lists in place and returning them.
launch_dims_in_place(p, h, var_vals) ==
  LET gs == IF IsNone(p.global_size) THEN <<>> ELSE h[p.global_size]
      ls == IF IsNone(p.local_size) THEN <<>> ELSE h[p.local_size]
  IN IF ~AllBound(gs, var_vals) \/ ~AllBound(ls, var_vals)
     THEN [heap |-> h, raised |-> TRUE, global_size |-> 0, local_size |-> 0]
     ELSE [heap |-> [r \in 1..Len(h) |->
                       IF r = p.global_size THEN Resolved(gs, var_vals)
                       ELSE IF r = p.local_size THEN Resolved(ls, var_vals)
                       ELSE h[r]],
           raised |-> FALSE, global_size |-> p.global_size, local_size |-> p.local_size]
\* ProgramSpec.launch_dims (lines 101-104) on p with the lists of h:
\* [heap, raised, global_size, local_size], the results by reference (0 for None).
launch_dims(p, h, var_vals) ==
  LET gs == IF IsNone(p.global_size) THEN <<>> ELSE h[p.global_size]
      ls == IF IsNone(p.local_size) THEN <<>> ELSE h[p.local_size]
      h1 == IF IsNone(p.global_size) THEN h ELSE Append(h, Resolved(gs, var_vals))
      g == IF IsNone(p.global_size) THEN 0 ELSE Len(h1)
      h2 == IF IsNone(p.local_size) THEN h1 ELSE Append(h1, Resolved(ls, var_vals))
      l == IF IsNone(p.local_size) THEN 0 ELSE Len(h2)
  IN IF ~AllBound(gs, var_vals) \/ ~AllBound(ls, var_vals)
     THEN [heap |-> h, raised |-> TRUE, global_size |-> 0, local_size |-> 0]
     ELSE [heap |-> h2, raised |-> FALSE, global_size |-> g, local_size |-> l]

\* ------------------------------------------------------------ the state
VARIABLES
  uops,             \* the uop list handed to flops_mem / to ProgramSpec
  ignore_indexing,  \* flops_mem's argument
  pc,               \* flops_mem: "start", "count", "returned", "error"
  i,                \* position of flops_mem's second loop (1-based)
  frame,            \* flops_mem's locals
  regionA, regionB, \* two code regions
  est,              \* the estimates of the regions, of their concatenation, and the sum
  heap,             \* the list objects held in global_size / local_size, by reference
  args,             \* the arguments of the ProgramSpec constructor call
  psPc,             \* "new", "built", "failed"
  psErr,            \* the exception that ended the constructor call, or ""
  prog,             \* the constructed ProgramSpec
  clone,            \* the latest record rebuilt by dataclasses.replace
  calls             \* the launch_dims calls made so far, with their results

fmVars == <<uops, ignore_indexing, pc, i, frame>>
addVars == <<regionA, regionB, est>>
psVars == <<heap, args, psPc, psErr, prog, clone, calls>>
vars == <<uops, ignore_indexing, pc, i, frame, regionA, regionB, est,
          heap, args, psPc, psErr, prog, clone, calls>>

\* The values of the variables a specification does not use.
FMIdle ==
  /\ uops = <<>> /\ ignore_indexing = FALSE /\ pc = "idle" /\ i = 1 /\ frame = Frame0
EstNone ==
  [done |-> FALSE, a |-> Estimates(0, 0, 0), b |-> Estimates(0, 0, 0),
   ab |-> Estimates(0, 0, 0), sum |-> Estimates(0, 0, 0)]
AddIdle == regionA = <<>> /\ regionB = <<>> /\ est = EstNone
PSIdle ==
  /\ heap = <<>> /\ psPc = "idle" /\ psErr = "" /\ prog = <<>> /\ clone = <<>>
  /\ calls = <<>>
  /\ args = [uops_is_none |-> TRUE, uops |-> <<>>, global_len |-> 0, local_len |-> 0,
             global_size |-> 0, local_size |-> 0]

\* ---------------------------------------------- the estimator, stepwise
FMInit ==
  /\ uops \in SeqsUpTo(LoopOps, MaxLoopLen) \cup SeqsUpTo(AllOps, MaxLen)
  /\ ignore_indexing \in BOOLEAN
  /\ pc = "start"
  /\ i = 1
  /\ frame = Frame0
  /\ AddIdle /\ PSIdle

\* Lines 38-49 with ignore_indexing unset.
FMStart ==
  /\ pc = "start" /\ ~ignore_indexing
  /\ pc' = "count"
  /\ UNCHANGED <<uops, ignore_indexing, i, frame, addVars, psVars>>

\* Lines 38-49 with ignore_indexing set: the whole first loop.
FMBuildDontCount ==
  /\ pc = "start" /\ ignore_indexing
  /\ frame' = [frame EXCEPT !.dont_count = DontCount(uops, TRUE)]
  /\ pc' = "count"
  /\ UNCHANGED <<uops, ignore_indexing, i, addVars, psVars>>

\* The second loop is at a uop that takes branch b of lines 51-59.
At(b) == pc = "count" /\ i <= Len(uops) /\ Branch(frame, uops[i]) = b

Advance == i' = i + 1 /\ UNCHANGED <<uops, ignore_indexing, pc, addVars, psVars>>

\* Lines 51-53.
FMRange == At("RANGE") /\ frame' = OnRange(frame, Node(uops[i])) /\ Advance

\* Line 54; the IndexError of pop on an empty list leaves the call.
FMEndRange ==
  /\ At("ENDRANGE")
  /\ frame' = OnEndRange(frame, Node(uops[i]))
  /\ IF frame'.status = "error"
     THEN pc' = "error" /\ UNCHANGED <<uops, ignore_indexing, i, addVars, psVars>>
     ELSE Advance

\* Line 55.
FMSpecial == At("SPECIAL") /\ frame' = OnSpecial(frame, Node(uops[i])) /\ Advance

\* Line 56.
FMLoad == At("LOAD") /\ frame' = OnLoad(frame, Node(uops[i])) /\ Advance

\* Line 57.
FMStore == At("STORE") /\ frame' = OnStore(frame, Node(uops[i])) /\ Advance

\* Line 58.
FMALU == At("ALU") /\ frame' = OnALU(frame, Node(uops[i])) /\ Advance

\* Line 59.
FMWMMA == At("WMMA") /\ frame' = OnWMMA(frame, Node(uops[i])) /\ Advance

\* No branch of the chain matches: the uop contributes nothing.
FMOther == At("NONE") /\ frame' = frame /\ Advance

\* Line 60.
FMReturn ==
  /\ pc = "count" /\ i = Len(uops) + 1
  /\ pc' = "returned"
  /\ UNCHANGED <<uops, ignore_indexing, i, frame, addVars, psVars>>

FMNext ==
  \/ FMStart \/ FMBuildDontCount
  \/ FMRange \/ FMEndRange \/ FMSpecial \/ FMLoad \/ FMStore
  \/ FMALU \/ FMWMMA \/ FMOther
  \/ FMReturn

SpecFM == FMInit /\ [][FMNext]_vars

\* --------------------------------------- estimates of two code regions
AddInit ==
  /\ regionA \in SeqsUpTo(AddOps, MaxRegionA)
  /\ regionB \in SeqsUpTo(AddOps, MaxRegionB)
  /\ ignore_indexing \in BOOLEAN
  /\ est = EstNone
  /\ uops = <<>> /\ pc = "idle" /\ i = 1 /\ frame = Frame0
  /\ PSIdle

\* The two regions are estimated separately and the estimates added; the
\* concatenation is estimated as one sequence.
EstimateRegions ==
  /\ ~est.done
  /\ LET ea == EstimateOf(regionA, ignore_indexing, 0)
         eb == EstimateOf(regionB, ignore_indexing, 0)
     IN est' = [done |-> TRUE, a |-> ea, b |-> eb,
                ab |-> EstimateOf(regionA \o regionB, ignore_indexing, 0),
                sum |-> EstimatesAdd(ea, eb)]
  /\ UNCHANGED <<fmVars, regionA, regionB, psVars>>

AddNext == EstimateRegions

SpecAdd == AddInit /\ [][AddNext]_vars

\* ---------------------------------------------------------- ProgramSpec
One == Sint(1, "")
\* The base lists the caller allocates (the NOTE of line 86): a list of 1s per
\* grid level that is set, None for a level of length 0.
BaseHeap(gl, ll) ==
  (IF gl > 0 THEN <<[k \in 1..gl |-> One]>> ELSE <<>>)
    \o (IF ll > 0 THEN <<[k \in 1..ll |-> One]>> ELSE <<>>)
CallArgs(none, s, gl, ll) ==
  [uops_is_none |-> none, uops |-> s, global_len |-> gl, local_len |-> ll,
   global_size |-> IF gl > 0 THEN 1 ELSE 0,
   local_size |-> IF ll = 0 THEN 0 ELSE IF gl > 0 THEN 2 ELSE 1]

PSInitWith(none, s, gl, ll) ==
  /\ args = CallArgs(none, s, gl, ll)
  /\ heap = BaseHeap(gl, ll)
  /\ psPc = "new" /\ psErr = "" /\ prog = <<>> /\ clone = <<>> /\ calls = <<>>
  /\ FMIdle /\ AddIdle

PSInit ==
  \/ \E s \in SeqsUpTo(BufOps, MaxBufLen) : PSInitWith(FALSE, s, MaxDims, MaxDims)
  \/ \E s \in SeqsUpTo(GridOps, MaxGridLen) : \E gl, ll \in 0..MaxDims :
       PSInitWith(FALSE, s, gl, ll)
  \/ \E gl, ll \in 0..MaxDims : PSInitWith(TRUE, <<>>, gl, ll)

\* ProgramSpec(name, src, device, uops, mem_estimate, global_size, local_size):
\* __init__ then __post_init__.
Construct ==
  /\ psPc = "new"
  /\ LET p0 == ProgramSpecInit("k", args.uops_is_none, args.uops, 0,
                               args.global_size, args.local_size)
         st == post_init(p0, heap)
     IN /\ heap' = st.heap
        /\ IF st.err = ""
           THEN psPc' = "built" /\ prog' = <<st.p>> /\ psErr' = ""
           ELSE psPc' = "failed" /\ prog' = prog /\ psErr' = st.err
  /\ UNCHANGED <<fmVars, addVars, args, clone, calls>>

\* dataclasses.replace(p, **changes): __init__ with p's fields, the changed
\* ones replaced, then __post_init__.  The list fields are passed as they are.
Changed(p, change) ==
  IF change = "name" THEN [p EXCEPT !.name = "k2"]
  ELSE IF change = "mem_estimate" THEN [p EXCEPT !.mem_estimate = 64]
  ELSE p

Replace ==
  /\ psPc = "built"
  /\ \E from \in {prog, clone} : \E change \in {"none", "name", "mem_estimate"} :
       /\ from # <<>>
       /\ LET st == post_init(Changed(from[1], change), heap)
          IN /\ heap' = st.heap
             /\ IF st.err = ""
                THEN clone' = <<st.p>> /\ psErr' = psErr
                ELSE clone' = clone /\ psErr' = st.err
  /\ UNCHANGED <<fmVars, addVars, args, psPc, prog, calls>>

PSNext == Construct \/ Replace

SpecPS == PSInit /\ [][PSNext]_vars

\* --------------------------------------------------------- launch_dims
Bindings ==
  {[x \in {} |-> 0], ("va" :> 2), ("va" :> 3), ("va" :> 2) @@ ("vb" :> 5)}

LDInit ==
  \/ \E s \in SeqsUpTo(LaunchOps, MaxLaunchLen) : \E gl, ll \in 0..MaxDims :
       PSInitWith(FALSE, s, gl, ll)
  \/ \E gl, ll \in 0..MaxDims : PSInitWith(TRUE, <<>>, gl, ll)

LaunchDims ==
  /\ psPc = "built" /\ Len(calls) < MaxCalls
  /\ \E var_vals \in Bindings :
       LET r == launch_dims(prog[1], heap, var_vals)
       IN /\ heap' = r.heap
          /\ calls' = Append(calls, [var_vals |-> var_vals, raised |-> r.raised,
                                     global_size |-> r.global_size,
                                     local_size |-> r.local_size])
  /\ UNCHANGED <<fmVars, addVars, args, psPc, psErr, prog, clone>>

LDNext == Construct \/ LaunchDims

SpecLD == LDInit /\ [][LDNext]_vars

\* ------------------------------------------- claims about the estimator
IsOp(s, k, op) == Node(s[k]).op = op

\* Number of RANGE ops minus number of ENDRANGE ops at positions j..m of s.
NestDepth(s, j, m) ==
  Cardinality({k \in j..m : IsOp(s, k, "RANGE")})
    - Cardinality({k \in j..m : IsOp(s, k, "ENDRANGE")})

\* No ENDRANGE of the first n uops is reached with no RANGE open.
WellNested(s, n) == \A m \in 1..n : NestDepth(s, 1, m) >= 0

\* The positions of the RANGE ops open at position k.
OpenAt(s, k) ==
  {j \in 1..(k - 1) :
     /\ IsOp(s, j, "RANGE")
     /\ \A m \in (j + 1)..(k - 1) : NestDepth(s, j + 1, m) >= 0}

RangeTrip(s, j) == Node(Node(s[j]).src[2]).arg.n - Node(Node(s[j]).src[1]).arg.n

RECURSIVE OpenProdUpTo(_, _, _)
OpenProdUpTo(s, k, j) ==
  IF j = 0 THEN 1
  ELSE (IF j \in OpenAt(s, k) THEN RangeTrip(s, j) ELSE 1) * OpenProdUpTo(s, k, j - 1)

\* Product of the trip counts of the RANGE ops open at position k.
OpenProd(s, k) == OpenProdUpTo(s, k, k - 1)

RECURSIVE MemSum(_, _)
MemSum(s, n) ==
  IF n = 0 THEN 0
  ELSE MemSum(s, n - 1)
       + (IF IsOp(s, n, "LOAD") THEN Node(s[n]).dtype.itemsize * OpenProd(s, n)
          ELSE IF IsOp(s, n, "STORE")
               THEN Node(Node(s[n]).src[2]).dtype.itemsize * OpenProd(s, n)
          ELSE 0)

NoSpecial(s, n) == \A k \in 1..n : ~IsOp(s, k, "SPECIAL")

\* C1: for a well-nested sequence with no SPECIAL op, mem is the sum over the
\* LOAD ops of itemsize(dtype) and over the STORE ops of itemsize(src[1].dtype),
\* each times the product of the trip counts of the RANGE ops open at the op
\* (stated of every processed prefix, so also of the returned total).
C1_MemIsLoopScaledSum ==
  (pc # "start" /\ WellNested(uops, i - 1) /\ NoSpecial(uops, i - 1))
    => frame.mem = MemSum(uops, i - 1)

\* A load inside two nested loops (trip counts 2 and 3) and a store after the
\* loops closed have been counted.
C1_Witness ==
  /\ pc = "returned" /\ WellNested(uops, Len(uops)) /\ NoSpecial(uops, Len(uops))
  /\ \E k \in 1..Len(uops) : IsOp(uops, k, "LOAD") /\ Cardinality(OpenAt(uops, k)) = 2
  /\ frame.mem = 2 * 3 * 4

\* The ops in the dependency closure of the index operand of a LOAD or STORE
\* or of the predicate operand of an IF.
IndexClosure(s) ==
  UNION {toposort(Node(s[k]).src[1]) :
           k \in {m \in 1..Len(s) : Node(s[m]).op \in {"LOAD", "STORE", "IF"}}}

AtClosureOp ==
  /\ ignore_indexing /\ pc = "count" /\ i <= Len(uops)
  /\ uops[i] \in IndexClosure(uops)

\* C3 as stated: with ignore_indexing, an op in the closure of an index or
\* predicate operand adds nothing to ops nor to the load/store bytes.
C3_ClosureOpAddsNothing ==
  [][AtClosureOp => (frame'.flops = frame.flops /\ frame'.mem = frame.mem)]_vars

\* C3 amended: the exclusion set is complete before the counting pass starts;
\* an op in it adds nothing to ops, while a LOAD in it still adds its bytes.
C3_ClosureOpAddsNoFlops ==
  /\ []((ignore_indexing /\ pc # "start") => IndexClosure(uops) \subseteq frame.dont_count)
  /\ [][AtClosureOp => frame'.flops = frame.flops]_vars
  /\ [][(AtClosureOp /\ IsOp(uops, i, "LOAD")) =>
          frame'.mem = frame.mem + Node(uops[i]).dtype.itemsize * frame.mults]_vars

\* An ALU op and a WMMA op that are index or predicate computation were
\* processed and the ops total is still 0.
C3_Witness ==
  /\ ignore_indexing /\ pc = "returned" /\ frame.flops = 0
  /\ \E k \in 1..Len(uops) :
       uops[k] \in IndexClosure(uops) /\ Node(uops[k]).op \in GroupALU
  /\ \E k \in 1..Len(uops) :
       uops[k] \in IndexClosure(uops) /\ Node(uops[k]).op = "WMMA"

\* C7: a sequence in which an ENDRANGE is reached with no RANGE open never
\* returns a cost pair: the call ends in an error at that ENDRANGE.
C7_UnmatchedEndRangeRaises ==
  /\ pc = "returned" => WellNested(uops, Len(uops))
  /\ pc = "count" => WellNested(uops, i - 1)
  /\ pc = "error" => (IsOp(uops, i, "ENDRANGE") /\ NestDepth(uops, 1, i - 1) = 0)

\* The call has ended in an error at an ENDRANGE with an empty stack, after
\* an earlier loop was opened and closed properly.
C7_Witness ==
  /\ pc = "error" /\ frame.mult_stack = <<>> /\ IsOp(uops, i, "ENDRANGE")
  /\ \E k \in 1..(i - 1) : IsOp(uops, k, "RANGE")

\* C9 as stated: the extent of every processed SPECIAL op stays a factor of
\* the multiplier, whatever ENDRANGE follows, and SPECIAL leaves the depth of
\* the stack alone.
C9_SpecialExtentStaysFactor ==
  /\ pc \in {"count", "returned"} =>
       \A k \in 1..(i - 1) :
         IsOp(uops, k, "SPECIAL") => frame.mults % Node(uops[k]).arg.n = 0
  /\ (pc \in {"count", "returned"} /\ WellNested(uops, i - 1)) =>
       Len(frame.mult_stack) = NestDepth(uops, 1, i - 1)

\* --------------------------------------------- claims about additivity
\* Every RANGE of the region is closed inside it, and nothing else is.
Balanced(s) == WellNested(s, Len(s)) /\ NestDepth(s, 1, Len(s)) = 0

SumIsConcat ==
  /\ ~est.ab.raised /\ ~est.sum.raised
  /\ est.ab.ops = est.sum.ops
  /\ est.ab.lds = est.sum.lds

\* C2 as stated (flops_mem called with ignore_indexing at its default): for
\* regions a and b whose RANGE ops are closed inside the region, the estimate
\* of a followed by b is the sum of the estimates of a and of b.
C2_AdditiveAsStated ==
  (est.done /\ ~ignore_indexing /\ Balanced(regionA) /\ Balanced(regionB))
    => SumIsConcat

\* No op of one region lies in the exclusion set the other region builds.
IndexDisjoint(s, t) ==
  /\ Range(s) \cap DontCount(t, TRUE) = {}
  /\ Range(t) \cap DontCount(s, TRUE) = {}

\* C2 amended: additivity holds when moreover region a holds no SPECIAL op
\* and, with ignore_indexing set, no op of one region is index or predicate
\* computation of the other; the sum is the component-wise one.
C2_AdditiveWithoutSpecial ==
  (/\ est.done /\ Balanced(regionA) /\ Balanced(regionB)
   /\ NoSpecial(regionA, Len(regionA))
   /\ ignore_indexing => IndexDisjoint(regionA, regionB))
    => /\ SumIsConcat
       /\ est.sum.ops = est.a.ops + est.b.ops
       /\ est.sum.lds = est.a.lds + est.b.lds
       /\ est.sum.mem = est.a.mem + est.b.mem

\* A loop with a load, followed by a region with a SPECIAL and a load.
C2_Witness ==
  /\ est.done /\ Balanced(regionA) /\ Balanced(regionB)
  /\ NoSpecial(regionA, Len(regionA)) /\ ~NoSpecial(regionB, Len(regionB))
  /\ ignore_indexing /\ IndexDisjoint(regionA, regionB)
  /\ est.a.lds = 2 * 4 /\ est.b.lds = 5 * 4 /\ est.ab.lds = 28

\* ------------------------------------------- claims about ProgramSpec
\* Construction completed and a uop list was given.
BuiltFromUops == psPc = "built" /\ ~args.uops_is_none

SpecialAt(k) == IsOp(args.uops, k, "SPECIAL")
TagOf(k) == Node(args.uops[k]).arg.tag
SuffixOf(k) == int(TagOf(k)[Len(TagOf(k))])
ExtentOf(k) == Sint(Node(args.uops[k]).arg.n, Node(args.uops[k]).arg.v)
Positions == 1..Len(args.uops)

\* The list a reference holds, <<>> for None.
ListAt(h, ref) == IF ref = 0 THEN <<>> ELSE h[ref]

\* What the structural pass fills in, with the grid lists by reference and by
\* content.
Finalized(p, h) ==
  [vars |-> p.vars, globals |-> p.globals, outs |-> p.outs,
   global_size |-> p.global_size, local_size |-> p.local_size,
   global_list |-> ListAt(h, p.global_size), local_list |-> ListAt(h, p.local_size)]

\* C4: once a ProgramSpec has been built from uops, every replace, with or
\* without overrides, from the original or from a rebuilt record, leaves the
\* original as it was and gives a record with the same vars, globals, outs,
\* global_size and local_size.
C4_ReplaceKeepsFinalized ==
  [][BuiltFromUops =>
       /\ prog' = prog
       /\ Finalized(prog'[1], heap') = Finalized(prog[1], heap)
       /\ clone' # <<>> =>
            (clone'[1].ran_post_init /\ Finalized(clone'[1], heap') = Finalized(prog[1], heap))]_vars

\* A record rebuilt twice, with both overrides, of a program that has
\* globals, an output and a written grid entry or a variable.
C4_Witness ==
  /\ BuiltFromUops /\ clone # <<>>
  /\ clone[1].name = "k2" /\ clone[1].mem_estimate = 64
  /\ prog[1].globals # <<>> /\ prog[1].outs # <<>> /\ prog[1].vars # <<>>

StorePositions == {k \in Positions : IsOp(args.uops, k, "STORE")}

\* The slots of the DEFINE_GLOBAL ops reachable from the destination operand
\* of some STORE.
StoreTargets ==
  {Node(x).arg.n :
     x \in {y \in UNION {toposort(Node(args.uops[k]).src[1]) : k \in StorePositions} :
              Node(y).op = "DEFINE_GLOBAL"}}

\* C5: after construction from uops, outs is strictly ascending and holds
\* exactly the slots reachable from the destination of some STORE.
C5_OutsSortedDistinctExact ==
  BuiltFromUops =>
    /\ \A j, k \in 1..Len(prog[1].outs) : j < k => prog[1].outs[j] < prog[1].outs[k]
    /\ Range(prog[1].outs) = StoreTargets

\* The same target was stored to twice, and a store reaching both buffers
\* came before one reaching only the higher slot.
C5_Witness ==
  /\ BuiltFromUops
  /\ \E j, k \in StorePositions : j < k /\ args.uops[j] = args.uops[k]
  /\ prog[1].outs = <<0, 1>>

\* The length the caller allocated for the list a SPECIAL op is routed to
\* (0: None).
TargetLen(k) == IF TagOf(k)[1] = "l" THEN args.local_len ELSE args.global_len

\* The list a SPECIAL op is routed to is None when the op is reached.
TargetNone(k) ==
  \/ TargetLen(k) = 0
  \/ TagOf(k)[1] = "l" /\ \E j \in 1..(k - 1) : SpecialAt(j) /\ TagOf(j)[1] = "i"

OutOfBounds(k) == SpecialAt(k) /\ ~TargetNone(k) /\ SuffixOf(k) >= TargetLen(k)

\* C8: a SPECIAL op whose suffix is not below the length of its target list
\* makes construction fail with an IndexError (when reached, that is unless
\* an earlier SPECIAL already failed on a None target); construction never
\* completes with such an op in the sequence, and no list changes length.
C8_OutOfBoundsFails ==
  /\ psPc = "built" => \A k \in Positions : ~OutOfBounds(k)
  /\ \A k \in Positions :
       (OutOfBounds(k) /\ psPc # "new"
          /\ \A j \in 1..(k - 1) : SpecialAt(j) => ~TargetNone(j))
         => (psPc = "failed" /\ psErr = "IndexError")
  /\ psErr = "IndexError" => \E k \in Positions : OutOfBounds(k)
  /\ Len(ListAt(heap, args.global_size)) = args.global_len
  /\ Len(ListAt(heap, args.local_size)) = args.local_len

\* Construction failed with an IndexError after an earlier SPECIAL op had
\* been written into the same list.
C8_Witness ==
  /\ psPc = "failed" /\ psErr = "IndexError"
  /\ \E k \in Positions : OutOfBounds(k)
  /\ \E r \in 1..Len(heap) : \E k \in 1..Len(heap[r]) : heap[r][k] # One

LastOf(S) == CHOOSE k \in S : \A j \in S : j <= k

\* The entry of a grid list: the extent of the last SPECIAL op of the given
\* kind with suffix d, or the value the caller allocated.
Routed(local, d) ==
  LET S == {k \in Positions :
              SpecialAt(k) /\ (TagOf(k)[1] = "l") = local /\ SuffixOf(k) = d}
  IN IF S = {} THEN One ELSE ExtentOf(LastOf(S))

\* C10: when construction completes, (1) an 'i' tag anywhere makes local_size
\* None; (2) otherwise local_size is the caller's list with entry k the
\* extent of the last 'l' op of suffix k; (3) global_size is the caller's
\* list with entry k the extent of the last op of suffix k not tagged 'l';
\* entries no op names keep the allocated value.
C10_SpecialRouting ==
  BuiltFromUops =>
    /\ (\E k \in Positions : SpecialAt(k) /\ TagOf(k)[1] = "i") => prog[1].local_size = 0
    /\ ~(\E k \in Positions : SpecialAt(k) /\ TagOf(k)[1] = "i") =>
         /\ prog[1].local_size = args.local_size
         /\ \A d \in 1..args.local_len : heap[args.local_size][d] = Routed(TRUE, d - 1)
    /\ prog[1].global_size = args.global_size
    /\ \A d \in 1..args.global_len : heap[args.global_size][d] = Routed(FALSE, d - 1)

\* An 'l' op came before an 'i' op: local_size is None although the caller
\* allocated it, and the 'i' op's extent is in global_size.
C10_Witness ==
  /\ BuiltFromUops /\ args.local_len > 0 /\ prog[1].local_size = 0
  /\ \E j, k \in Positions :
       /\ j < k /\ SpecialAt(j) /\ SpecialAt(k)
       /\ TagOf(j)[1] = "l" /\ TagOf(k)[1] = "i"
  /\ heap[args.global_size][1] = Sint(9, "")

\* ------------------------------------------- claims about launch_dims
Results(c) == <<ListAt(heap, c.global_size), ListAt(heap, c.local_size)>>

\* The list objects in use: the templates and every returned list.
Refs ==
  <<prog[1].global_size, prog[1].local_size>>
    \o [k \in 1..(2 * Len(calls)) |->
          IF k % 2 = 1 THEN calls[(k + 1) \div 2].global_size
          ELSE calls[k \div 2].local_size]

\* C6: launch_dims leaves the record and its templates as they were; a call
\* that returns gives None exactly for the levels that are None and, for the
\* others, a new list object holding the resolved sizes; calls with the same
\* bindings give equal results whatever calls lie between.
C6_LaunchDimsPure ==
  /\ [][psPc = "built" =>
          /\ prog' = prog
          /\ Finalized(prog'[1], heap') = Finalized(prog[1], heap)]_vars
  /\ [](psPc = "built" =>
          /\ \A k \in 1..Len(calls) : ~calls[k].raised =>
               /\ (calls[k].global_size = 0) = (prog[1].global_size = 0)
               /\ (calls[k].local_size = 0) = (prog[1].local_size = 0)
               /\ Results(calls[k]) =
                    <<Resolved(ListAt(heap, prog[1].global_size), calls[k].var_vals),
                      Resolved(ListAt(heap, prog[1].local_size), calls[k].var_vals)>>
          /\ \A j, k \in 1..Len(Refs) : (j # k /\ Refs[j] # 0) => Refs[j] # Refs[k]
          /\ \A j, k \in 1..Len(calls) :
               calls[j].var_vals = calls[k].var_vals =>
                 /\ calls[j].raised = calls[k].raised
                 /\ Results(calls[j]) = Results(calls[k]))

\* Two calls with the same bindings around a call with other bindings, on a
\* program with a symbolic global size and no local size.
C6_Witness ==
  /\ psPc = "built" /\ Len(calls) = 3
  /\ calls[1].var_vals = calls[3].var_vals /\ calls[2].var_vals # calls[1].var_vals
  /\ ~calls[1].raised /\ ~calls[2].raised
  /\ prog[1].global_size # 0 /\ prog[1].local_size = 0
  /\ \E k \in 1..Len(heap[prog[1].global_size]) : heap[prog[1].global_size][k].v # ""
  /\ Results(calls[1]) # Results(calls[2])

====
